---- MODULE Spec2Model ----
(***************************************************************************)
(* Model of the Gemini client session engine: Client (src/src/client.rs),  *)
(* the status routing and prompt handlers (src/src/handlers.rs), the       *)
(* status classification (src/src/models.rs) and the driving loop          *)
(* (src/src/bin/main.rs).                                                  *)
(*                                                                         *)
(* Strings are sequences of tokens: a scheme name, a host name, a path     *)
(* segment and a query value are one token each, punctuation (":" "/" "?"  *)
(* ".") is a token of its own.  Url values are records produced by         *)
(* UrlParse / UrlJoin from such token strings.                             *)
(***************************************************************************)
EXTENDS Integers, Sequences, FiniteSets, TLC

\* ------------------------------------------------------------------------
\* Bounds of the model
\* ------------------------------------------------------------------------
\* Spec: sessions with several answered prompts
MaxHistory == 5      \* navigation steps (Client::request calls) per session
MaxPrompts == 3      \* navigation prompts answered per session
MaxInputs == 1       \* Input-class responses per session
\* SpecChain: sessions long enough to run into the redirect guard repeatedly
ChainHistory == 7
ChainPrompts == 1
ChainInputs == 1

\* SpecBack: entries of the history "b" is first typed at, and the number
\* of times it is typed
BackHistory == 3
BackCommands == 2
\* SpecResponse: characters of a raw response handed to Response::try_from
MaxRaw == 5
\* SpecResolve: tokens of a link string handed to click_link
MaxLink == 4
\* SpecGuard: sessions long enough for one redirect chain to reach the guard
GuardHistory == 6
GuardPrompts == 1
GuardInputs == 1

Bounds == [history |-> MaxHistory, prompts |-> MaxPrompts, inputs |-> MaxInputs]

ChainBounds ==
    [history |-> ChainHistory, prompts |-> ChainPrompts, inputs |-> ChainInputs]

GuardBounds ==
    [history |-> GuardHistory, prompts |-> GuardPrompts, inputs |-> GuardInputs]

\* ------------------------------------------------------------------------
\* Values
\* ------------------------------------------------------------------------
\* Option: None is the empty sequence, Some(v) the one-element sequence
None == <<>>
Some(v) == <<v>>
Unwrap(o) == o[1]

NoHost == "NoHost"
NoQuery == "NoQuery"

SpecialSchemes == {"http"}
SchemeNames == {"gemini", "http"}
HostNames == {"h"}

\* token strings used as links, redirect metas and typed input
S_a == <<"gemini", ":", "/", "/", "h", "/", "a">>
S_dp == <<"gemini", ":", "/", "/", "h", "/", "d", "/", "p">>
S_http == <<"http", ":", "/", "/", "h", "/", "a">>
S_db == <<"gemini", ":", "/", "/", "h", "/", "d", "/", "b">>
S_abs == <<"/", "d", "/", "b">>
S_rel == <<"b">>
S_net == <<"/", "/", "h", "/", "d", "/", "b">>
S_bad == <<"/", "/", "[">>
S_garbage == <<"?">>

\* ------------------------------------------------------------------------
\* url crate: parsing, joining, query, serialisation
\* ------------------------------------------------------------------------
StartsWith(s, p) == Len(s) >= Len(p) /\ SubSeq(s, 1, Len(p)) = p

Drop(s, n) == SubSeq(s, n + 1, Len(s))

\* index of the first "?" token, or Len(s) + 1
RECURSIVE QueryPos(_, _)
QueryPos(s, i) ==
    IF i > Len(s) THEN Len(s) + 1
    ELSE IF s[i] = "?" THEN i
    ELSE QueryPos(s, i + 1)

BeforeQuery(s) == SubSeq(s, 1, QueryPos(s, 1) - 1)

QueryOf(s) ==
    LET q == QueryPos(s, 1)
    IN  IF q > Len(s) THEN NoQuery
        ELSE IF q = Len(s) THEN ""
        ELSE s[q + 1]

\* path tokens ("/" seg "/" seg ...) to the sequence of segments; "" is an
\* empty segment, so "/" is <<"">> and the empty path is <<>>
RECURSIVE PathSegs(_)
PathSegs(t) ==
    IF t = <<>> THEN <<>>
    ELSE IF Len(t) >= 2 /\ t[2] # "/" THEN <<t[2]>> \o PathSegs(Drop(t, 2))
    ELSE <<"">> \o PathSegs(Drop(t, 1))

\* removal of "." and ".." segments (RFC 3986 5.2.4)
RECURSIVE RemoveDots(_, _)
RemoveDots(segs, out) ==
    IF segs = <<>> THEN out
    ELSE IF Head(segs) = "."
         THEN IF Len(segs) = 1 THEN out \o <<"">> ELSE RemoveDots(Tail(segs), out)
    ELSE IF Head(segs) = ".."
         THEN LET up == IF out = <<>> THEN <<>> ELSE SubSeq(out, 1, Len(out) - 1)
              IN  IF Len(segs) = 1 THEN up \o <<"">> ELSE RemoveDots(Tail(segs), up)
    ELSE RemoveDots(Tail(segs), Append(out, Head(segs)))

\* Result<Url, ParseError>
Ok(u) == [ok |-> TRUE, val |-> Some(u), err |-> ""]
Err(e) == [ok |-> FALSE, val |-> None, err |-> e]

\* Url::parse
UrlParse(s) ==
    IF ~(Len(s) >= 2 /\ s[1] \in SchemeNames /\ s[2] = ":")
    THEN Err("RelativeUrlWithoutBase")
    ELSE
    LET scheme == s[1]
        rest == Drop(s, 2)
    IN  IF ~StartsWith(rest, <<"/", "/">>)
        THEN Ok([scheme |-> scheme, host |-> NoHost,
                 path |-> BeforeQuery(rest), query |-> QueryOf(rest)])
        ELSE
        LET after == Drop(rest, 2)
        IN  IF after = <<>> \/ after[1] \in {"/", "?"}
            THEN IF scheme \in SpecialSchemes THEN Err("EmptyHost")
                 ELSE Ok([scheme |-> scheme, host |-> "",
                          path |-> RemoveDots(PathSegs(BeforeQuery(after)), <<>>),
                          query |-> QueryOf(after)])
            ELSE IF after[1] = "[" THEN Err("InvalidIpv6Address")
            ELSE
            LET tail == Drop(after, 1)
                segs == RemoveDots(PathSegs(BeforeQuery(tail)), <<>>)
            IN  Ok([scheme |-> scheme, host |-> after[1],
                    path |-> IF segs = <<>> /\ scheme \in SpecialSchemes
                             THEN <<"">> ELSE segs,
                    query |-> QueryOf(tail)])

\* Url::join for a reference without a scheme and without an authority
UrlJoin(base, ref) ==
    IF base.host = NoHost THEN Err("RelativeUrlWithCannotBeABaseBase")
    ELSE
    LET p == BeforeQuery(ref)
        dir == IF base.path = <<>> THEN <<>>
               ELSE SubSeq(base.path, 1, Len(base.path) - 1)
        segs == IF StartsWith(p, <<"/">>) THEN PathSegs(p)
                ELSE dir \o PathSegs(<<"/">> \o p)
    IN  Ok([scheme |-> base.scheme, host |-> base.host,
            path |-> RemoveDots(segs, <<>>),
            query |-> QueryOf(ref)])

\* Url::set_query with an Option<&str>
SetQuery(u, q) == [u EXCEPT !.query = IF q = None THEN NoQuery ELSE Unwrap(q)]

\* Url::path
RECURSIVE PathStr(_)
PathStr(segs) ==
    IF segs = <<>> THEN <<>>
    ELSE (IF Head(segs) = "" THEN <<"/">> ELSE <<"/", Head(segs)>>)
         \o PathStr(Tail(segs))

\* Url::as_str
UrlStr(u) ==
    (IF u.host = NoHost THEN <<u.scheme, ":">> \o u.path
     ELSE <<u.scheme, ":", "/", "/", u.host>> \o PathStr(u.path))
    \o (IF u.query = NoQuery THEN <<>>
        ELSE IF u.query = "" THEN <<"?">>
        ELSE <<"?", u.query>>)

\* ------------------------------------------------------------------------
\* models.rs: status classification
\* ------------------------------------------------------------------------
\* a classification whose ranges start one code late
StatusCodeFrom_Late(code) ==
    IF code > 10 /\ code <= 20 THEN "Input"
    ELSE IF code > 20 /\ code <= 30 THEN "Success"
    ELSE IF code > 30 /\ code <= 40 THEN "Redirect"
    ELSE IF code > 40 /\ code <= 50 THEN "TemporaryFailure"
    ELSE IF code > 50 /\ code <= 60 THEN "PermanentFailure"
    ELSE IF code > 60 /\ code <= 70 THEN "ClientCertificateRequired"
    ELSE "Unknown"

\* impl From<u8> for StatusCode
StatusCodeFrom(code) ==
    IF code >= 10 /\ code <= 19 THEN "Input"
    ELSE IF code >= 20 /\ code <= 29 THEN "Success"
    ELSE IF code >= 30 /\ code <= 39 THEN "Redirect"
    ELSE IF code >= 40 /\ code <= 49 THEN "TemporaryFailure"
    ELSE IF code >= 50 /\ code <= 59 THEN "PermanentFailure"
    ELSE IF code >= 60 /\ code <= 69 THEN "ClientCertificateRequired"
    ELSE "Unknown"

\* ------------------------------------------------------------------------
\* Inputs drawn by the actions
\* ------------------------------------------------------------------------
\* command line argument (main.rs, Cli.url)
CliInputs == {<<"h", "/", "d", "/", "p">>}

\* status codes a server may answer with
StatusCodes == {9, 10, 11, 20, 30, 44, 51, 62, 70}

\* meta of a Redirect response
Metas == {S_db, S_rel, S_abs, S_net, S_http, S_bad}

\* hrefs of the links of a Success response (Response.links)
LinkLists == {<<S_a, S_rel, S_dp, S_http, S_bad>>}

\* replies to an Input prompt; None is a failed read
Replies == {None, Some("x")}

\* lines typed at the navigation prompt that are no command and no number
TypedLines == {S_a, S_http, S_garbage}

\* numbers typed at the navigation prompt
NumberLines == {<<"0">>, <<"1">>, <<"2">>, <<"3">>, <<"4">>, <<"5">>}

\* text handed back by the editor, next to the unchanged text; None is an
\* aborted edit
EditedTexts == {None, Some(S_a), Some(S_garbage)}

\* ------------------------------------------------------------------------
\* State
\* ------------------------------------------------------------------------
VARIABLES
    current_url,        \* Client.current_url
    redirects,          \* Client.redirects
    history,            \* Client.history
    last_working_url,   \* Client.last_working_url
    url,                \* main_loop's local url: the target of the step
    pc,                 \* position of the program
    links,              \* Response.links of the document being displayed
    spawned,            \* xdg-open processes spawned since the step began
    driver,             \* "lib": handlers.rs routing, "bin": main.rs routing
    via,                \* log: the handler arm that decided the pending outcome
    steps,              \* log: target and outcome of every routed fetch
    arg,                \* argument handed to a function applied on its own
    out                 \* Some(result) once that function has returned

vars == <<current_url, redirects, history, last_working_url, url, pc, links,
          spawned, driver, via, steps, arg, out>>

\* Client.max_redirects, set by Client::new and never assigned again
max_redirects == 5

\* main.rs initialize_url
initialize_url(input) ==
    LET full_url == IF StartsWith(input, <<"gemini", ":", "/", "/">>) THEN input
                    ELSE <<"gemini", ":", "/", "/">> \o input
    IN  UrlParse(full_url)

\* Client::previous_url
previous_url == IF history = <<>> THEN None ELSE Some(history[Len(history)])

\* a "back" that takes the last entry, as previous_url does
actual_previous_url_Last == previous_url

\* a "back" that skips one more entry
actual_previous_url_Skip ==
    IF Len(history) >= 3 THEN Some(history[Len(history) - 2]) ELSE None

\* Client::actual_previous_url
actual_previous_url ==
    IF Len(history) >= 2 THEN Some(history[Len(history) - 1]) ELSE None

\* a click_link that joins a relative link at the root
ClickLink_AtRoot(link) ==
    LET parsed == UrlParse(link)
    IN  IF parsed.ok
        THEN IF Unwrap(parsed.val).scheme = "gemini"
             THEN IF Unwrap(parsed.val) = current_url
                  THEN [res |-> IF previous_url = None
                                THEN Err("RelativeUrlWithoutBase")
                                ELSE Ok(Unwrap(previous_url)),
                        spawn |-> 0]
                  ELSE [res |-> parsed, spawn |-> 0]
             ELSE [res |-> Ok(current_url), spawn |-> 1]
        ELSE [res |-> IF StartsWith(link, <<"/", "/">>)
                      THEN UrlParse(<<current_url.scheme, ":">> \o link)
                      ELSE IF StartsWith(link, <<"/">>)
                      THEN UrlJoin(current_url, link)
                      ELSE UrlJoin(current_url, <<"/">> \o link),
              spawn |-> 0]

\* Client::click_link: the result and the number of xdg-open spawns
ClickLink(link) ==
    LET parsed == UrlParse(link)
    IN  IF parsed.ok
        THEN IF Unwrap(parsed.val).scheme = "gemini"
             THEN IF Unwrap(parsed.val) = current_url
                  THEN [res |-> IF previous_url = None
                                THEN Err("RelativeUrlWithoutBase")
                                ELSE Ok(Unwrap(previous_url)),
                        spawn |-> 0]
                  ELSE [res |-> parsed, spawn |-> 0]
             ELSE [res |-> Ok(current_url), spawn |-> 1]
        ELSE [res |-> IF StartsWith(link, <<"/", "/">>)
                      THEN UrlParse(<<current_url.scheme, ":">> \o link)
                      ELSE IF StartsWith(link, <<"/">>)
                      THEN UrlJoin(current_url, link)
                      ELSE UrlJoin(current_url, <<".", "/">> \o link),
              spawn |-> 0]

\* Option<Url> of a Result<Url, _>: Result::ok
OkOrNone(r) == r.val

CountClass(c) == Cardinality({i \in 1..Len(steps) : steps[i].class = c})

\* ------------------------------------------------------------------------
\* Init: main() after Client::new
\* ------------------------------------------------------------------------
Init ==
    /\ \E input \in CliInputs :
          /\ initialize_url(input).ok
          /\ url = Unwrap(initialize_url(input).val)
          /\ current_url = url
    /\ redirects = 0
    /\ history = <<>>
    /\ last_working_url = None
    /\ pc = "request"
    /\ links = <<>>
    /\ spawned = 0
    /\ driver \in {"lib", "bin"}
    /\ via = "initial"
    /\ steps = <<>>
    /\ arg = None
    /\ out = None

\* main_loop: match on the Option<Url> returned by handle_request; arm names
\* the handler arm that returned it
MainLoop(ret, arm) ==
    /\ via' = arm
    /\ IF ret = None
       THEN pc' = "done" /\ UNCHANGED url
       ELSE pc' = "request" /\ url' = Unwrap(ret)

\* the process ends inside the handler arm: exit(1) or a panic
Ends(how, arm) == pc' = how /\ via' = arm /\ UNCHANGED url

\* handle_request was called for url and its fetch ended as class: "Input",
\* "Success", "Redirect", or "Failed" for every outcome that ends the session
Logged(class) == steps' = Append(steps, [url |-> url, class |-> class])

\* ------------------------------------------------------------------------
\* Client::request, up to the request being sent
\* ------------------------------------------------------------------------
\* a push that keeps a redirect hop out of the history: the hop replaces the
\* entry of the location that redirected
Pushed_RedirectReplaces(h, u) ==
    IF via = "redirect" /\ h # <<>> THEN [h EXCEPT ![Len(h)] = u] ELSE Append(h, u)

\* a push that skips a location equal to the last entry
Pushed_Dedup(h, u) ==
    IF h # <<>> /\ h[Len(h)] = u THEN h ELSE Append(h, u)

\* self.history.push(url.clone())
Pushed(h, u) == Append(h, u)

\* a request that appends its target and leaves the current location alone
Request_KeepsCurrent(b) ==
    /\ UNCHANGED <<arg, out>>
    /\ pc = "request"
    /\ Len(history) < b.history
    /\ history' = Append(history, url)
    /\ pc' = "response"
    /\ spawned' = 0
    /\ via' = "request"
    /\ UNCHANGED <<current_url, redirects, last_working_url, url, links, driver,
                   steps>>

\* Request::send: the line written to the stream for the url of the request
RequestLine(u) ==
    <<"gemini", ":", "/", "/", u.host>> \o PathStr(u.path) \o <<"\r\n">>

Request(b) ==
    /\ UNCHANGED <<arg, out>>
    /\ pc = "request"
    /\ Len(history) < b.history
    /\ history' = Pushed(history, url)
    /\ current_url' = url
    /\ pc' = "response"
    /\ spawned' = 0
    /\ via' = "request"
    /\ UNCHANGED <<redirects, last_working_url, url, links, driver, steps>>

\* ------------------------------------------------------------------------
\* handle_request: the outcome of Client::request routed
\* ------------------------------------------------------------------------
\* a transport failure that is answered with another attempt
RequestError_Retry ==
    /\ UNCHANGED <<arg, out>>
    /\ pc = "response"
    /\ MainLoop(Some(url), "request_error")
    /\ Logged("Failed")
    /\ UNCHANGED <<current_url, redirects, history, last_working_url, links,
                   spawned, driver>>

\* Err(e): the transport failed (connect, TLS, handshake, I/O)
RequestError ==
    /\ UNCHANGED <<arg, out>>
    /\ pc = "response"
    /\ IF driver = "lib" THEN MainLoop(None, "request_error")
       ELSE Ends("exit", "request_error")
    /\ Logged("Failed")
    /\ UNCHANGED <<current_url, redirects, history, last_working_url, links,
                   spawned, driver>>

\* Ok(Err(e)): the response did not parse
ResponseError ==
    /\ UNCHANGED <<arg, out>>
    /\ pc = "response"
    /\ IF driver = "lib" THEN MainLoop(None, "response_error")
       ELSE Ends("exit", "response_error")
    /\ Logged("Failed")
    /\ UNCHANGED <<current_url, redirects, history, last_working_url, links,
                   spawned, driver>>

\* an Input target taken from the entry before the last one
InputTarget_BeforeLast(reply) ==
    IF actual_previous_url = None THEN None
    ELSE Some(SetQuery(Unwrap(actual_previous_url), reply))

\* the target handle_input returns: the last history entry with the reply
\* as its query (None stands for the panic of the unwrap on an empty history)
InputTarget(reply) ==
    IF previous_url = None THEN None
    ELSE Some(SetQuery(Unwrap(previous_url), reply))

\* StatusCode::Input: handlers.rs handle_input; main.rs returns the url again
\* an Input step that starts the redirect count again
HandleInput_Resets(b, code, reply) ==
    /\ UNCHANGED <<arg, out>>
    /\ pc = "response"
    /\ StatusCodeFrom(code) = "Input"
    /\ CountClass("Input") < b.inputs
    /\ Logged("Input")
    /\ IF driver = "bin" THEN MainLoop(Some(url), "input")
       ELSE IF InputTarget(reply) = None THEN Ends("panic", "input")
       ELSE MainLoop(InputTarget(reply), "input")
    /\ redirects' = 0
    /\ UNCHANGED <<current_url, history, last_working_url, links, spawned,
                   driver>>

HandleInput(b, code, reply) ==
    /\ UNCHANGED <<arg, out>>
    /\ pc = "response"
    /\ StatusCodeFrom(code) = "Input"
    /\ CountClass("Input") < b.inputs
    /\ Logged("Input")
    /\ IF driver = "bin" THEN MainLoop(Some(url), "input")
       ELSE IF InputTarget(reply) = None THEN Ends("panic", "input")
       ELSE MainLoop(InputTarget(reply), "input")
    /\ UNCHANGED <<current_url, redirects, history, last_working_url, links,
                   spawned, driver>>

\* a last working url that is recorded once and then kept
WorkingUrl_First ==
    IF last_working_url = None THEN Some(url) ELSE last_working_url

\* client.last_working_url = Some(url.clone())
WorkingUrl == Some(url)

\* StatusCode::Success: handle_success up to the navigation prompt
HandleSuccess(code, response_links) ==
    /\ UNCHANGED <<arg, out>>
    /\ pc = "response"
    /\ StatusCodeFrom(code) = "Success"
    /\ Logged("Success")
    /\ last_working_url' = WorkingUrl
    /\ redirects' = 0
    /\ links' = response_links
    /\ pc' = "prompt"
    /\ via' = "success"
    /\ UNCHANGED <<current_url, history, url, spawned, driver>>

\* a redirect that falls back to the last working url when its meta does
\* not resolve
RedirectTarget_FallbackOnError(count, meta) ==
    IF count >= max_redirects \/ ~ClickLink(meta).res.ok THEN last_working_url
    ELSE OkOrNone(ClickLink(meta).res)

\* a guard that lets one more redirect through
RedirectTarget_OffByOne(count, meta) ==
    IF count > max_redirects THEN last_working_url
    ELSE OkOrNone(ClickLink(meta).res)

\* the Option<Url> handle_redirect returns, given the incremented counter
RedirectTarget(count, meta) ==
    IF count >= max_redirects THEN last_working_url
    ELSE OkOrNone(ClickLink(meta).res)

\* StatusCode::Redirect: handle_redirect
HandleRedirect(code, meta) ==
    /\ UNCHANGED <<arg, out>>
    /\ pc = "response"
    /\ StatusCodeFrom(code) = "Redirect"
    /\ Logged("Redirect")
    /\ redirects' = redirects + 1
    /\ spawned' = IF redirects' >= max_redirects THEN 0 ELSE ClickLink(meta).spawn
    /\ MainLoop(RedirectTarget(redirects', meta),
                IF redirects' >= max_redirects THEN "fallback" ELSE "redirect")
    /\ UNCHANGED <<current_url, history, last_working_url, links, driver>>

\* a failure arm that asks for the same location again
HandleFailure_Retry(code) ==
    /\ UNCHANGED <<arg, out>>
    /\ pc = "response"
    /\ StatusCodeFrom(code) \in
          {"TemporaryFailure", "PermanentFailure", "ClientCertificateRequired"}
    /\ Logged("Failed")
    /\ MainLoop(Some(url), "failure")
    /\ UNCHANGED <<current_url, redirects, history, last_working_url, links,
                   spawned, driver>>

\* TemporaryFailure, PermanentFailure, ClientCertificateRequired
HandleFailure(code) ==
    /\ UNCHANGED <<arg, out>>
    /\ pc = "response"
    /\ StatusCodeFrom(code) \in
          {"TemporaryFailure", "PermanentFailure", "ClientCertificateRequired"}
    /\ Logged("Failed")
    /\ MainLoop(None, "failure")
    /\ UNCHANGED <<current_url, redirects, history, last_working_url, links,
                   spawned, driver>>

\* StatusCode::Unknown(code)
HandleUnknown(code) ==
    /\ UNCHANGED <<arg, out>>
    /\ pc = "response"
    /\ StatusCodeFrom(code) = "Unknown"
    /\ Logged("Failed")
    /\ IF driver = "lib" THEN MainLoop(None, "unknown")
       ELSE Ends("exit", "unknown")
    /\ UNCHANGED <<current_url, redirects, history, last_working_url, links,
                   spawned, driver>>

\* ------------------------------------------------------------------------
\* get_client_prompt (handlers.rs) / handle_user_input (main.rs)
\* ------------------------------------------------------------------------
\* str::parse::<usize> of a typed line
ParseUsize(input) ==
    IF input \in NumberLines
    THEN Some(("0" :> 0 @@ "1" :> 1 @@ "2" :> 2 @@ "3" :> 3 @@ "4" :> 4 @@ "5" :> 5)[input[1]])
    ELSE None

\* lines that are matched as a command before any other arm
Commands(d) ==
    IF d = "lib" THEN {<<"q">>, <<"b">>, <<"r">>, <<"e">>}
    ELSE {<<"q">>, <<"b">>, <<"r">>}

\* lines typed at the prompt that are not "q", "b" or "r"
PromptLines == NumberLines \cup TypedLines \cup {<<"e">>}

\* lines a user may type that are no command of the driver
OtherLines(d) == PromptLines \ Commands(d)

\* the match guard of the link arm: the line is a number, a link has that
\* index and click_link on its href succeeds
LinkArm(input) ==
    /\ ParseUsize(input) # None
    /\ Unwrap(ParseUsize(input)) < Len(links)
    /\ ClickLink(links[Unwrap(ParseUsize(input)) + 1]).res.ok

\* the prompt is shown and, within the bound, answered
AtPrompt(b) == pc = "prompt" /\ CountClass("Success") <= b.prompts

\* the read of the line failed
PromptFailed(b, kind) ==
    /\ UNCHANGED <<arg, out>>
    /\ AtPrompt(b)
    /\ Ends(IF driver = "bin" /\ kind = "Other" THEN "panic" ELSE "exit", "eof")
    /\ links' = <<>>
    /\ UNCHANGED <<current_url, redirects, history, last_working_url, spawned,
                   driver, steps>>

\* "q"
Quit(b) ==
    /\ UNCHANGED <<arg, out>>
    /\ AtPrompt(b)
    /\ MainLoop(None, "quit")
    /\ links' = <<>>
    /\ UNCHANGED <<current_url, redirects, history, last_working_url, spawned,
                   driver, steps>>

\* "b"
Back(b) ==
    /\ UNCHANGED <<arg, out>>
    /\ AtPrompt(b)
    /\ MainLoop(actual_previous_url, "back")
    /\ links' = <<>>
    /\ UNCHANGED <<current_url, redirects, history, last_working_url, spawned,
                   driver, steps>>

\* "r"
Reload(b) ==
    /\ UNCHANGED <<arg, out>>
    /\ AtPrompt(b)
    /\ MainLoop(previous_url, "reload")
    /\ links' = <<>>
    /\ UNCHANGED <<current_url, redirects, history, last_working_url, spawned,
                   driver, steps>>

\* Client::edit_url on the text the editor hands back: the Option<Url> it
\* returns, or the panic of the unwrap of a failed parse
edit_url(text) ==
    IF text = None THEN [panic |-> FALSE, val |-> None]
    ELSE [panic |-> ~UrlParse(Unwrap(text)).ok, val |-> UrlParse(Unwrap(text)).val]

\* "e" (handlers.rs only)
Edit(b, text) ==
    /\ UNCHANGED <<arg, out>>
    /\ AtPrompt(b)
    /\ driver = "lib"
    /\ IF edit_url(text).panic THEN Ends("panic", "edit")
       ELSE MainLoop(edit_url(text).val, "edit")
    /\ links' = <<>>
    /\ UNCHANGED <<current_url, redirects, history, last_working_url, spawned,
                   driver, steps>>

\* a number that selects a link which resolves: click_link runs in the
\* guard and again in the arm
SelectLink(b, input) ==
    /\ UNCHANGED <<arg, out>>
    /\ AtPrompt(b)
    /\ input \in OtherLines(driver)
    /\ LinkArm(input)
    /\ spawned' = 2 * ClickLink(links[Unwrap(ParseUsize(input)) + 1]).spawn
    /\ MainLoop(OkOrNone(ClickLink(links[Unwrap(ParseUsize(input)) + 1]).res),
                "link")
    /\ links' = <<>>
    /\ UNCHANGED <<current_url, redirects, history, last_working_url, driver, steps>>

\* a line that parses as a Url
TypeUrl(b, input) ==
    /\ UNCHANGED <<arg, out>>
    /\ AtPrompt(b)
    /\ input \in OtherLines(driver)
    /\ ~LinkArm(input)
    /\ UrlParse(input).ok
    /\ MainLoop(UrlParse(input).val, "typed")
    /\ links' = <<>>
    /\ UNCHANGED <<current_url, redirects, history, last_working_url, spawned,
                   driver, steps>>

\* the number of a link whose href click_link fails to resolve
Unresolved(input) ==
    /\ ParseUsize(input) # None
    /\ Unwrap(ParseUsize(input)) < Len(links)
    /\ ~ClickLink(links[Unwrap(ParseUsize(input)) + 1]).res.ok

\* an invalid line that ends the session
InvalidInput_Ends(b, input) ==
    /\ UNCHANGED <<arg, out>>
    /\ AtPrompt(b)
    /\ input \in OtherLines(driver)
    /\ ~LinkArm(input)
    /\ ~UrlParse(input).ok
    /\ MainLoop(None, IF Unresolved(input) THEN "unresolved" ELSE "invalid")
    /\ links' = <<>>
    /\ UNCHANGED <<current_url, redirects, history, last_working_url, spawned,
                   driver, steps>>

\* anything else: "Invalid input", the same url again
InvalidInput(b, input) ==
    /\ UNCHANGED <<arg, out>>
    /\ AtPrompt(b)
    /\ input \in OtherLines(driver)
    /\ ~LinkArm(input)
    /\ ~UrlParse(input).ok
    /\ MainLoop(Some(url), IF Unresolved(input) THEN "unresolved" ELSE "invalid")
    /\ links' = <<>>
    /\ UNCHANGED <<current_url, redirects, history, last_working_url, spawned,
                   driver, steps>>

\* ------------------------------------------------------------------------
\* Specification
\* ------------------------------------------------------------------------
Step(b) ==
    \/ Request(b)
    \/ RequestError
    \/ ResponseError
    \/ \E code \in StatusCodes, reply \in Replies : HandleInput(b, code, reply)
    \/ \E code \in StatusCodes, ls \in LinkLists : HandleSuccess(code, ls)
    \/ \E code \in StatusCodes, meta \in Metas : HandleRedirect(code, meta)
    \/ \E code \in StatusCodes : HandleFailure(code)
    \/ \E code \in StatusCodes : HandleUnknown(code)
    \/ \E kind \in {"Eof", "Other"} : PromptFailed(b, kind)
    \/ Quit(b)
    \/ Back(b)
    \/ Reload(b)
    \/ \E text \in EditedTexts \cup {Some(UrlStr(current_url))} : Edit(b, text)
    \/ \E input \in PromptLines : SelectLink(b, input)
    \/ \E input \in PromptLines : TypeUrl(b, input)
    \/ \E input \in PromptLines : InvalidInput(b, input)

Next == Step(Bounds)

Spec == Init /\ [][Next]_vars

NextChain == Step(ChainBounds)

SpecChain == Init /\ [][NextChain]_vars

\* the same session, long enough for one redirect chain to reach the guard
NextGuard == Step(GuardBounds)

SpecGuard == Init /\ [][NextGuard]_vars

\* ------------------------------------------------------------------------
\* Functions applied on their own, outside a session
\* ------------------------------------------------------------------------
session == <<current_url, redirects, history, last_working_url, url, pc, links,
             spawned, driver, via, steps>>

\* a client that has fetched cur and is not being driven
Idle(cur) ==
    /\ current_url = cur
    /\ url = cur
    /\ history = <<cur>>
    /\ redirects = 0
    /\ last_working_url = None
    /\ pc = "idle"
    /\ links = <<>>
    /\ spawned = 0
    /\ driver = "lib"
    /\ via = "initial"
    /\ steps = <<>>

\* StatusCode::from on every u8
InitStatus ==
    /\ Idle(Unwrap(UrlParse(S_dp).val))
    /\ arg \in 0..255
    /\ out = None

Classify ==
    /\ out = None
    /\ out' = Some(StatusCodeFrom(arg))
    /\ UNCHANGED <<arg, session>>

SpecStatus == InitStatus /\ [][Classify]_vars

\* ------------------------------------------------------------------------
\* models.rs: Link::try_from and Response::try_from on raw text; a text is
\* a sequence of characters, "=>" standing for the two-character marker
\* ------------------------------------------------------------------------
\* index of the first sep in s from i on, or Len(s) + 1
RECURSIVE Find(_, _, _)
Find(s, sep, i) ==
    IF i > Len(s) THEN Len(s) + 1
    ELSE IF s[i] = sep THEN i
    ELSE Find(s, sep, i + 1)

\* str::split
RECURSIVE Split(_, _)
Split(s, sep) ==
    LET i == Find(s, sep, 1)
    IN  IF i > Len(s) THEN <<s>>
        ELSE <<SubSeq(s, 1, i - 1)>> \o Split(Drop(s, i), sep)

\* str::lines: a final line ending produces no empty last line
Lines(s) ==
    LET ps == Split(s, "\n")
    IN  IF ps[Len(ps)] = <<>> THEN SubSeq(ps, 1, Len(ps) - 1) ELSE ps

\* str::splitn(2, sep)
SplitN2(s, sep) ==
    LET i == Find(s, sep, 1)
    IN  IF i > Len(s) THEN <<s>>
        ELSE <<SubSeq(s, 1, i - 1), Drop(s, i)>>

\* str::trim_start, str::trim_end, str::trim
RECURSIVE TrimStart(_)
TrimStart(s) ==
    IF s # <<>> /\ Head(s) \in {" ", "\n"} THEN TrimStart(Tail(s)) ELSE s

RECURSIVE TrimEnd(_)
TrimEnd(s) ==
    IF s # <<>> /\ s[Len(s)] \in {" ", "\n"}
    THEN TrimEnd(SubSeq(s, 1, Len(s) - 1)) ELSE s

Trim(s) == TrimEnd(TrimStart(s))

\* str::trim_start_matches("=>")
RECURSIVE TrimStartMatches(_)
TrimStartMatches(s) ==
    IF s # <<>> /\ Head(s) = "=>" THEN TrimStartMatches(Tail(s)) ELSE s

\* [T]::join
RECURSIVE Join(_, _)
Join(ls, sep) ==
    IF ls = <<>> THEN <<>>
    ELSE IF Len(ls) = 1 THEN ls[1]
    ELSE ls[1] \o <<sep>> \o Join(Tail(ls), sep)

Digits == <<"0", "1", "2", "3", "4", "5", "6", "7", "8", "9">>

DigitVal(c) == CHOOSE d \in 0..9 : Digits[d + 1] = c

\* the decimal text of a number, as format! writes it
RECURSIVE ToDec(_)
ToDec(n) ==
    IF n < 10 THEN <<Digits[n + 1]>>
    ELSE ToDec(n \div 10) \o <<Digits[(n % 10) + 1]>>

\* the value of a text of digits
RECURSIVE DecVal(_)
DecVal(s) ==
    IF s = <<>> THEN 0
    ELSE 10 * DecVal(SubSeq(s, 1, Len(s) - 1)) + DigitVal(s[Len(s)])

\* str::parse::<u8>
ParseU8(s) ==
    IF /\ s # <<>>
       /\ \A i \in 1..Len(s) : \E d \in 1..10 : Digits[d] = s[i]
       /\ DecVal(s) <= 255
    THEN Some(DecVal(s)) ELSE None

\* Link::try_from
LinkTryFrom(line) ==
    LET trimmed == TrimStart(line)
    IN  IF ~StartsWith(trimmed, <<"=>">>) THEN Err("InvalidFormat")
        ELSE
        LET parts == SplitN2(Trim(TrimStartMatches(trimmed)), " ")
        IN  IF parts = <<>> THEN Err("InvalidFormat")
            ELSE Ok([href |-> parts[1],
                     name |-> IF Len(parts) >= 2 THEN Some(parts[2]) ELSE None])

\* the map over the lines that builds the body, count being the counter
RECURSIVE Annotate(_, _)
Annotate(ls, count) ==
    IF ls = <<>> THEN <<>>
    ELSE IF StartsWith(TrimStart(Head(ls)), <<"=>">>)
    THEN <<<<"(">> \o ToDec(count) \o <<")", " ">> \o TrimStart(Head(ls))>>
         \o Annotate(Tail(ls), count + 1)
    ELSE <<Head(ls)>> \o Annotate(Tail(ls), count)

\* the filter_map over the lines that builds the links
RECURSIVE ExtractLinks(_)
ExtractLinks(ls) ==
    IF ls = <<>> THEN <<>>
    ELSE (IF StartsWith(Head(ls), <<"=>">>) /\ LinkTryFrom(Head(ls)).ok
          THEN LinkTryFrom(Head(ls)).val ELSE <<>>)
         \o ExtractLinks(Tail(ls))

\* Response::try_from
ResponseTryFrom(raw) ==
    LET ls == Lines(raw)
    IN  IF ls = <<>> THEN Err("EmptyResponse")
        ELSE
        LET first_line_parts == SplitN2(ls[1], " ")
            rest == Tail(ls)
            body == Join(Annotate(rest, 0), "\n")
        IN  IF first_line_parts = <<>> THEN Err("MissingStatusCode")
            ELSE IF ParseU8(first_line_parts[1]) = None
            THEN Err("InvalidStatusCode")
            ELSE IF Len(first_line_parts) < 2 THEN Err("MissingMetaDescription")
            ELSE Ok([status_code |->
                         StatusCodeFrom(Unwrap(ParseU8(first_line_parts[1]))),
                     status_code_num |-> Unwrap(ParseU8(first_line_parts[1])),
                     meta_description |-> first_line_parts[2],
                     body |-> IF body = <<>> THEN None ELSE Some(body),
                     links |-> ExtractLinks(rest)])

RawChars == {"\n", " ", "=>", "a", "2", "5", "6"}

RawTexts == UNION {[1..n -> RawChars] : n \in 0..MaxRaw}

InitResponse ==
    /\ Idle(Unwrap(UrlParse(S_dp).val))
    /\ arg \in RawTexts
    /\ out = None

ParseResponse ==
    /\ out = None
    /\ out' = Some(ResponseTryFrom(arg))
    /\ UNCHANGED <<arg, session>>

SpecResponse == InitResponse /\ [][ParseResponse]_vars

\* click_link on a link string without a scheme
LinkTokens == {"/", "h", ".."}

RawLinks == UNION {[1..n -> LinkTokens] : n \in 0..MaxLink}

\* current locations gemini://h/..., each with a path
Locations ==
    {[scheme |-> "gemini", host |-> host, path |-> path, query |-> NoQuery] :
        host \in HostNames,
        path \in {<<"">>, <<"a">>, <<"d", "p">>, <<"d", "">>, <<"d", "e", "p">>}}

InitResolve ==
    /\ \E cur \in Locations : Idle(cur)
    /\ arg \in RawLinks
    /\ out = None

Resolve ==
    /\ out = None
    /\ out' = Some(ClickLink(arg).res)
    /\ UNCHANGED <<arg, session>>

SpecResolve == InitResolve /\ [][Resolve]_vars

\* ------------------------------------------------------------------------
\* "b" typed again and again, every fetch answered with Success; arg keeps
\* the history the first "b" is typed at
\* ------------------------------------------------------------------------
BackBounds ==
    [history |-> BackHistory + BackCommands, prompts |-> BackCommands - 1,
     inputs |-> 0]

\* the prompt of a session that visited the locations of h, in that order
InitBack ==
    /\ arg \in UNION {[1..n -> Locations] : n \in 2..BackHistory}
    /\ out = None
    /\ history = arg
    /\ current_url = arg[Len(arg)]
    /\ url = current_url
    /\ last_working_url = Some(current_url)
    /\ redirects = 0
    /\ pc = "prompt"
    /\ \E ls \in LinkLists : links = ls
    /\ spawned = 0
    /\ driver \in {"lib", "bin"}
    /\ via = "success"
    /\ steps = <<>>

NextBack ==
    \/ Back(BackBounds)
    \/ Request(BackBounds)
    \/ \E code \in StatusCodes, ls \in LinkLists : HandleSuccess(code, ls)

SpecBack == InitBack /\ [][NextBack]_vars

\* ------------------------------------------------------------------------
\* Properties
\* ------------------------------------------------------------------------
BoundsUsed == {Bounds, ChainBounds, GuardBounds}

Last(s) == s[Len(s)]

\* number of Redirect outcomes at the end of the log
RECURSIVE TrailingRedirects(_)
TrailingRedirects(s) ==
    IF s = <<>> \/ Last(s).class # "Redirect" THEN 0
    ELSE 1 + TrailingRedirects(SubSeq(s, 1, Len(s) - 1))

L_dp == [scheme |-> "gemini", host |-> "h", path |-> <<"d", "p">>, query |-> NoQuery]
L_a == [scheme |-> "gemini", host |-> "h", path |-> <<"a">>, query |-> NoQuery]
L_b == [scheme |-> "gemini", host |-> "h", path |-> <<"b">>, query |-> NoQuery]
L_db == [scheme |-> "gemini", host |-> "h", path |-> <<"d", "b">>, query |-> NoQuery]

\* C1: a run of consecutive Redirect fetches is cut off after max_redirects
\* of them: no session ever routes more than max_redirects Redirect
\* responses in a row.
C1_RedirectChainCutOff == TrailingRedirects(steps) <= max_redirects

\* C2: after Success for L0, a user-chosen target L1, a Redirect from L1 to L2
\* and Success for L2, the history is exactly [L0, L1, L2], the last working
\* url is L2 and the redirect counter is 0.
C2_EndToEnd ==
    (/\ pc = "prompt"
     /\ Len(steps) = 3
     /\ <<steps[1].class, steps[2].class, steps[3].class>>
           = <<"Success", "Redirect", "Success">>)
    => /\ history = <<steps[1].url, steps[2].url, steps[3].url>>
       /\ last_working_url = Some(steps[3].url)
       /\ redirects = 0

C2_Witness ==
    /\ pc = "prompt"
    /\ steps = <<[url |-> L_dp, class |-> "Success"],
                 [url |-> L_a, class |-> "Redirect"],
                 [url |-> L_b, class |-> "Success"]>>
    /\ history = <<L_dp, L_a, L_b>>

\* C3: "b" with at least two history entries continues with the
\* next-to-last entry, "r" with a non-empty history continues with the last
\* entry, which is the current location.
C3_BackReload ==
    [][/\ (\E b \in BoundsUsed : Back(b)) /\ Len(history) >= 2
          => pc' = "request" /\ url' = history[Len(history) - 1]
       /\ (\E b \in BoundsUsed : Reload(b)) /\ Len(history) >= 1
          => pc' = "request" /\ url' = Last(history) /\ url' = current_url]_vars

C3_Witness ==
    /\ via = "back"
    /\ pc = "request"
    /\ Len(history) = 3
    /\ history[2] # history[3]
    /\ url = history[2]

\* C4: a link that spells out the current location resolves to the history
\* entry before the current one, and fails when the history holds the
\* current entry only.
C4_SelfLinkPrevious ==
    \A link \in {S_a, S_dp, S_db} :
        (/\ pc = "prompt"
         /\ UrlParse(link).ok
         /\ Unwrap(UrlParse(link).val) = current_url)
        => ClickLink(link).res =
               IF Len(history) >= 2 THEN Ok(history[Len(history) - 1])
               ELSE Err("RelativeUrlWithoutBase")

\* C5 as stated: an Input step continues with the history entry before the
\* current one, its query set to the reply, and does not continue when there
\* is no such entry.
C5_InputBeforeLast ==
    [][\A b \in BoundsUsed, code \in StatusCodes, reply \in Replies :
          HandleInput(b, code, reply)
          => IF Len(history) >= 2
             THEN pc' = "request" /\ url' = SetQuery(history[Len(history) - 1], reply)
             ELSE pc' # "request"]_vars

\* C5 as amended: an Input step always continues; under the routing of
\* handlers.rs the next target is the last history entry, which is the
\* location just fetched, with its query set to the reply (no query when no
\* reply was read); under the routing of main.rs it is the same location
\* again, unchanged.
C5_InputCurrent ==
    [][\A b \in BoundsUsed, code \in StatusCodes, reply \in Replies :
          HandleInput(b, code, reply)
          => /\ pc' = "request"
             /\ history # <<>>
             /\ Last(history) = current_url
             /\ url' = IF driver = "lib" THEN SetQuery(Last(history), reply)
                       ELSE url]_vars

C5_Witness ==
    /\ via = "input"
    /\ pc = "request"
    /\ driver = "lib"
    /\ Len(history) >= 2
    /\ history[Len(history) - 1] # Last(history)
    /\ url = SetQuery(Last(history), Some("x"))
    /\ url # Last(history)

\* positions of the log whose fetch classified as Success
SuccessIdx == {i \in 1..Len(steps) : steps[i].class = "Success"}

Max(S) == CHOOSE x \in S : \A y \in S : y <= x

\* C6: the last working url is absent while no fetch has classified as
\* Success and is otherwise the location of the latest fetch that did, and
\* the redirect counter is 0 right after a Success step.
C6_LastWorking ==
    /\ last_working_url =
          IF SuccessIdx = {} THEN None ELSE Some(history[Max(SuccessIdx)])
    /\ via = "success" => redirects = 0

C6_Witness ==
    /\ via = "success"
    /\ Cardinality(SuccessIdx) = 2
    /\ Len(steps) = 4
    /\ steps[1].class = "Success"
    /\ steps[4].class = "Success"
    /\ history[1] # history[4]
    /\ last_working_url = Some(history[4])

\* Redirect outcomes logged after the latest Success outcome
RedirectsSinceSuccess ==
    Cardinality({i \in 1..Len(steps) :
                    /\ steps[i].class = "Redirect"
                    /\ \A j \in SuccessIdx : j < i})

\* C7: every Redirect step increments the counter by one before it decides;
\* with the counter at max_redirects or above the meta is not followed and
\* the step continues with the last working url, or ends the session when
\* there is none; below max_redirects the step continues with the meta
\* resolved against the current location, or ends when it does not resolve.
C7_RedirectGuard ==
    /\ redirects = RedirectsSinceSuccess
    /\ via \in {"fallback", "redirect"}
       => /\ Last(steps).class = "Redirect"
          /\ Last(steps).url = current_url
          /\ pc \in {"request", "done"}
    /\ via = "fallback"
       => /\ redirects >= max_redirects
          /\ IF last_working_url = None THEN pc = "done"
             ELSE pc = "request" /\ url = Unwrap(last_working_url)
    /\ via = "redirect"
       => /\ redirects < max_redirects
          /\ IF pc = "request"
             THEN \E meta \in Metas : ClickLink(meta).res = Ok(url)
             ELSE \E meta \in Metas : ~ClickLink(meta).res.ok

C7_Witness ==
    /\ via = "fallback"
    /\ pc = "request"
    /\ redirects = max_redirects
    /\ url = Unwrap(last_working_url)
    /\ url # Last(history)

\* C8: a failure or unknown status ends the session: the step yields no next
\* location, and no step is taken once the session has ended.
C8_FailureEnds ==
    [][/\ \A code \in StatusCodes :
             HandleFailure(code) \/ HandleUnknown(code)
             => pc' \in {"done", "exit"} /\ UNCHANGED <<url, history, current_url>>
       /\ pc \notin {"done", "exit", "panic"}]_vars

C8_Witness ==
    /\ via = "failure"
    /\ pc = "done"
    /\ Len(history) >= 2
    /\ Last(steps).class = "Failed"

\* C9: a transport or parse failure ends the loop without another attempt,
\* and the failed target is already the last history entry and the current
\* location.
C9_FetchErrorEnds ==
    [][RequestError \/ ResponseError
       => /\ pc' \in {"done", "exit"}
          /\ history # <<>>
          /\ Last(history) = url
          /\ current_url = url
          /\ UNCHANGED <<url, history, current_url>>]_vars

C9_Witness ==
    /\ via \in {"request_error", "response_error"}
    /\ pc = "done"
    /\ Len(history) >= 2
    /\ Last(history) = url
    /\ current_url = url
    /\ history[Len(history) - 1] # url

\* C10: a step that starts a fetch appends exactly its target to the history
\* and makes it the current location; every other step leaves the history
\* as it is.
C10_AppendOnly ==
    [][IF pc = "request" /\ pc' = "response"
       THEN history' = Append(history, url) /\ current_url' = url
       ELSE history' = history /\ current_url' = current_url]_vars

C10_Witness ==
    /\ Len(history) >= 3
    /\ history[Len(history)] = history[Len(history) - 1]
    /\ history[Len(history)] # history[1]
    /\ current_url = Last(history)

\* C11: "b" typed while the history has fewer than two entries leaves the
\* current location as it is and leads to the prompt again; the session does
\* not end.
C11_BackReprompts ==
    (via = "back" /\ Len(history) < 2)
    => /\ pc \in {"request", "prompt"}
       /\ current_url = Last(history)

\* C16: after a link with a foreign scheme has been handed to the opener the
\* current location is unchanged and no navigation step is pending.
C16_ExternalNoNavigation ==
    (via = "link" /\ spawned > 0)
    => /\ current_url = Last(history)
       /\ pc # "request"

\* C18: an edit never aborts the program: text that does not parse is
\* discarded, text that parses becomes the next target.
C18_EditDiscarded ==
    via = "edit" => pc \in {"request", "prompt", "done"}

\* C19: a Redirect step below max_redirects whose meta does not resolve ends
\* the session: no next location, no fallback to the last working url.
C19_RedirectUnresolved ==
    [][pc = "response" /\ redirects' # redirects
       => \A code \in {c \in StatusCodes : StatusCodeFrom(c) = "Redirect"},
             meta \in Metas :
             (/\ HandleRedirect(code, meta)
              /\ redirects' < max_redirects
              /\ ~ClickLink(meta).res.ok)
             => /\ pc' = "done"
                /\ UNCHANGED <<url, history, current_url, last_working_url>>]_vars

C19_Witness ==
    /\ via = "redirect"
    /\ pc = "done"
    /\ redirects \in 1..(max_redirects - 1)
    /\ last_working_url # None
    /\ Last(steps).class = "Redirect"

\* C20: after the number of a link that does not resolve, or a line that is
\* no command, no link number and no location, the session goes on with the
\* location just displayed as its next target.
C20_InvalidReprompts ==
    via \in {"invalid", "unresolved"}
    => /\ pc = "request"
       /\ url = current_url
       /\ url = Last(history)
       /\ Last(steps) = [url |-> url, class |-> "Success"]

C20_Witness ==
    /\ via = "unresolved"
    /\ pc = "request"
    /\ Len(history) >= 2
    /\ url = Last(history)

\* C14: every code 0..255 has exactly one class: 10-19 Input, 20-29 Success,
\* 30-39 Redirect, 40-49 TemporaryFailure, 50-59 PermanentFailure, 60-69
\* ClientCertificateRequired, every other code Unknown.
C14_Classification ==
    out # None
    => /\ arg \in 0..255
       /\ Unwrap(out) = "Input" <=> arg \in 10..19
       /\ Unwrap(out) = "Success" <=> arg \in 20..29
       /\ Unwrap(out) = "Redirect" <=> arg \in 30..39
       /\ Unwrap(out) = "TemporaryFailure" <=> arg \in 40..49
       /\ Unwrap(out) = "PermanentFailure" <=> arg \in 50..59
       /\ Unwrap(out) = "ClientCertificateRequired" <=> arg \in 60..69
       /\ Unwrap(out) = "Unknown" <=> arg \notin 10..69

C14_Witness == arg = 69 /\ out = Some("ClientCertificateRequired")

\* scheme://host of the current location, as text
Origin == <<current_url.scheme, ":", "/", "/", current_url.host>>

\* the directory of the current location, as text: its path without the
\* last segment
DirStr == PathStr(SubSeq(current_url.path, 1, Len(current_url.path) - 1))

\* C17: a link without a scheme resolves against scheme://host/dir/page to
\* the location scheme://host<raw> when it starts with one "/", to
\* scheme:<raw> when it starts with "//", and to scheme://host/dir/<raw>
\* otherwise.
C17_RelativeResolution ==
    out # None
    => Unwrap(out) =
          IF StartsWith(arg, <<"/", "/">>)
          THEN UrlParse(<<current_url.scheme, ":">> \o arg)
          ELSE IF StartsWith(arg, <<"/">>)
          THEN UrlParse(Origin \o arg)
          ELSE UrlParse(Origin \o DirStr \o <<"/">> \o arg)

C17_Witness ==
    /\ current_url.path = <<"d", "p">>
    /\ arg = <<"h">>
    /\ out = Some(Ok([scheme |-> "gemini", host |-> "h", path |-> <<"d", "h">>,
                      query |-> NoQuery]))

\* a line is a link line when it starts with the marker once leading
\* whitespace is stripped
IsLinkLine(l) == StartsWith(TrimStart(l), <<"=>">>)

\* C12: the lines after the first that are link lines, in document order,
\* are the lines of the extracted links: the k-th of them (k from 0) is
\* written to the body as "(k) " and the line without its leading
\* whitespace, and its Link is at position k of the links; every other line
\* is written to the body unchanged.
C12_LinkIndices ==
    (out # None /\ Unwrap(out).ok)
    => LET r == Unwrap(Unwrap(out).val)
           bl == Tail(Lines(arg))
           annotated == IF r.body = None THEN <<>>
                        ELSE Split(Unwrap(r.body), "\n")
           ordinal(i) == Len(SelectSeq(SubSeq(bl, 1, i), IsLinkLine))
       IN  /\ r.body = None => bl \in {<<>>, <<<<>>>>}
           /\ r.body # None => Len(annotated) = Len(bl)
           /\ \A i \in 1..Len(bl) :
                 IF IsLinkLine(bl[i])
                 THEN /\ annotated[i] = <<"(">> \o ToDec(ordinal(i) - 1)
                                         \o <<")", " ">> \o TrimStart(bl[i])
                      /\ ordinal(i) <= Len(r.links)
                      /\ r.links[ordinal(i)] = Unwrap(LinkTryFrom(bl[i]).val)
                 ELSE r.body # None => annotated[i] = bl[i]

\* C13: no extracted Link has an empty href: a link line with nothing after
\* the marker yields no Link.
C13_EmptyLinkSkipped ==
    (out # None /\ Unwrap(out).ok)
    => \A i \in 1..Len(Unwrap(Unwrap(out).val).links) :
          Unwrap(Unwrap(out).val).links[i].href # <<>>

\* C15: a raw text without lines fails with EmptyResponse; otherwise an
\* absent first token of the first line fails with MissingStatusCode, a
\* first token that is no integer in 0..255 with InvalidStatusCode, a first
\* line that ends with the status token with MissingMetaDescription; every
\* other text parses, its body absent exactly when the remaining lines
\* joined are empty.
C15_ParseErrors ==
    out # None
    => LET r == Unwrap(out)
           ls == Lines(arg)
       IN  IF ls = <<>> THEN r = Err("EmptyResponse")
           ELSE IF SplitN2(ls[1], " ")[1] = <<>> THEN r = Err("MissingStatusCode")
           ELSE IF ParseU8(SplitN2(ls[1], " ")[1]) = None
           THEN r = Err("InvalidStatusCode")
           ELSE IF Find(ls[1], " ", 1) > Len(ls[1])
           THEN r = Err("MissingMetaDescription")
           ELSE /\ r.ok
                /\ Unwrap(r.val).body = None <=> Join(Tail(ls), "\n") = <<>>
                /\ Unwrap(r.val).body # None
                   => Unwrap(Unwrap(r.val).body) # <<>>

\* C21: while a request is in flight, the line written for it is the
\* scheme of its target, "://", the target's host and path, and CRLF.
C21_RequestLine ==
    pc = "response"
    => RequestLine(current_url) =
          <<current_url.scheme, ":", "/", "/", current_url.host>>
          \o PathStr(current_url.path) \o <<"\r\n">>

\* C24: every location a request is in flight for has the scheme gemini.
C24_OwnSchemeOnly ==
    pc = "response" => current_url.scheme = "gemini"

\* C22: the redirect counter is the number of Redirect steps since the
\* latest Success step, whatever Input steps, failures and prompt commands
\* lie between them, so a Redirect step that brings it to max_redirects is
\* cut off by the guard even when Input steps interrupt the chain.
C22_CounterFrame ==
    /\ redirects = RedirectsSinceSuccess
    /\ (steps # <<>> /\ Last(steps).class = "Redirect"
           /\ RedirectsSinceSuccess >= max_redirects /\ via # "request")
       => via = "fallback"

C22_Witness ==
    /\ via = "fallback"
    /\ redirects = max_redirects
    /\ SuccessIdx = {}
    /\ CountClass("Input") = 1
    /\ Len(steps) = max_redirects + 1
    /\ steps[1].class = "Redirect"

\* C23: once a navigation step has started, the history is not empty and
\* its last entry is the current location.
C23_CurrentIsLast ==
    via # "initial" => history # <<>> /\ current_url = Last(history)

C23_Witness ==
    /\ via = "success"
    /\ pc = "prompt"
    /\ Len(history) = 2
    /\ history[1] # history[2]
    /\ current_url = history[2]

\* C25: selecting the number of a link with a foreign scheme invokes the
\* opener once.
C25_OpenerOnce ==
    (via = "link" /\ spawned > 0) => spawned = 1

\* C26: every fetch caused by "b" appends the entry before the last one, so
\* the entries appended by consecutive "b" commands repeat the two entries
\* the first "b" was typed at: after two of them the history [.., A, B] is
\* [.., A, B, A, B] and the current location is B again.
C26_BackAlternates ==
    /\ SubSeq(history, 1, Len(arg)) = arg
    /\ \A i \in (Len(arg) + 1)..Len(history) : history[i] = history[i - 2]
    /\ (pc = "prompt" /\ Len(history) = Len(arg) + 2)
       => /\ history = arg \o <<arg[Len(arg) - 1], arg[Len(arg)]>>
          /\ current_url = arg[Len(arg)]

C26_Witness ==
    /\ pc = "prompt"
    /\ Len(arg) = 3
    /\ arg[1] # arg[2] /\ arg[2] # arg[3] /\ arg[1] # arg[3]
    /\ history = arg \o <<arg[2], arg[3]>>
    /\ current_url = arg[3]

====
